---- MODULE Spec2Model ----
(***************************************************************************)
(* Model of src/main.py: a Streamlit script that browses a corpus of novel *)
(* metadata.  Every user interaction re-runs the script top to bottom:     *)
(*   load_index_data() (st.cache_data, ttl=3600)  ->  filter  ->  sort     *)
(*   ->  page slice  ->  story query for the ids of the page  ->  display. *)
(*                                                                         *)
(* Nullable column values are modelled as sequences of length 0 (null) or  *)
(* 1 (a value).  Strings that are searched are sequences of characters.    *)
(***************************************************************************)
EXTENDS Integers, Sequences, FiniteSets, TLC

\* ------------------------------------------------------------------ bounds
\* Largest number of rows in the parquet store.
MaxRows == 3
\* The clock advances in steps of TTL \div 2, at most MaxTicks times.
MaxTicks == 2
\* PAGE_SIZE of main.py:75 is 50; the model runs the same arithmetic with a
\* small page so that several pages fit in MaxRows rows.
PAGE_SIZE == 2

\* --------------------------------------------------------------- constants
\* @st.cache_data(ttl=3600)
TTL == 3600

TickSeconds == TTL \div 2

\* "すべて", the entry of the genre selectbox that disables the genre filter
GenreAll == "ALL"
\* "不明", the value fillna gives to a missing genre
GenreUnknown == "UNKNOWN"

\* ------------------------------------------------------------ nullable values
Null == <<>>
Some(x) == <<x>>
IsNull(v) == v = <<>>
Val(v) == v[1]

\* ------------------------------------------------------------------- inputs
\* The rows the parquet files may hold, without their ncode.
RowKinds ==
  { [title |-> Some(<<"a">>), genre |-> Some("g1"), global_point |-> Some(1000),
     keyword |-> Null, story |-> "sA"],
    [title |-> Null, genre |-> Null, global_point |-> Null,
     keyword |-> Some(<<"a", "b">>), story |-> "sB"],
    [title |-> Some(<<"b">>), genre |-> Some("g2"), global_point |-> Some(1000),
     keyword |-> Some(<<"b">>), story |-> "sC"] }

\* What the user may type in the keyword text_input ("" disables the filter).
Keywords == { <<>>, <<"a">>, <<".">> }

\* What the user may enter in the minimum-point number_input.
MinPoints == { -1000, 0, 1000 }

MkRow(kind, n) ==
  [ncode |-> n, title |-> kind.title, genre |-> kind.genre,
   global_point |-> kind.global_point, keyword |-> kind.keyword,
   story |-> kind.story]

\* All stores of exactly n rows; the ncode of a row is unique.
StoresOfLen(n) ==
  { [i \in 1..n |-> MkRow(k[i], i)] : k \in [1..n -> RowKinds] }

Stores == UNION { StoresOfLen(n) : n \in 0..MaxRows }

VARIABLES
  store,             \* rows of data/*.parquet
  now,               \* wall clock, seconds
  cache,             \* entry of st.cache_data for load_index_data: Null or Some([at, value])
  pc,                \* position of the script run
  queries,           \* queries the current run has issued to the store
  error,             \* exception raised in the current run
  df_index,
  genre_filter, keyword, min_point,
  df_view,
  total_pages,
  current_page,
  df_display_index,
  df_stories,
  df_final,
  ui                 \* what the run has put on the screen

vars == << store, now, cache, pc, queries, error, df_index, genre_filter, keyword,
           min_point, df_view, total_pages, current_page, df_display_index,
           df_stories, df_final, ui >>

\* ------------------------------------------------------------ load_index_data
\* SELECT ncode, title, genre, global_point, length, general_lastup, keyword
\* followed by fillna(0).astype(int) and fillna("不明").  The story column is
\* not selected.
NormalizeRow(r) ==
  [ncode |-> r.ncode, title |-> r.title,
   genre |-> IF IsNull(r.genre) THEN GenreUnknown ELSE Val(r.genre),
   global_point |-> IF IsNull(r.global_point) THEN 0 ELSE Val(r.global_point),
   keyword |-> r.keyword]

IndexQuery(s) == [i \in 1..Len(s) |-> NormalizeRow(s[i])]

\* Mutant of Fresh: the time to live taken for a third of its value.
FreshShortTTL(entry, t) == t - entry.at < TTL \div 3

\* A cache entry is served while its age is below the time to live.
Fresh(entry, t) == t - entry.at < TTL

\* ------------------------------------------------------------------ filtering
\* re.search of a pattern made of literal characters and "." at position i
ReMatchAt(pat, text, i) ==
  /\ i + Len(pat) - 1 <= Len(text)
  /\ \A j \in 1..Len(pat) : pat[j] = "." \/ pat[j] = text[i + j - 1]

ReSearch(pat, text) == \E i \in 1..(Len(text) + 1) : ReMatchAt(pat, text, i)

\* Series.str.contains(pat, na=False): regex=True is the default
StrContains(field, pat) ==
  IF IsNull(field) THEN FALSE ELSE ReSearch(pat, Val(field))

KeepPoint(r, mp) == r.global_point >= mp
KeepGenre(r, g) == r.genre = g
KeepKeyword(r, kw) == StrContains(r.title, kw) \/ StrContains(r.keyword, kw)

FilterView(df, g, kw, mp) ==
  LET v1 == IF mp > 0 THEN SelectSeq(df, LAMBDA r : KeepPoint(r, mp)) ELSE df
      v2 == IF g # GenreAll THEN SelectSeq(v1, LAMBDA r : KeepGenre(r, g)) ELSE v1
      v3 == IF kw # <<>> THEN SelectSeq(v2, LAMBDA r : KeepKeyword(r, kw)) ELSE v2
  IN  v3

\* ["すべて"] + sorted(df_index["genre"].unique().tolist())
Genres(df) == {GenreAll} \cup { df[i].genre : i \in 1..Len(df) }

\* -------------------------------------------------------------------- sorting
Perms(n) == { p \in [1..n -> 1..n] : \A i, j \in 1..n : i # j => p[i] # p[j] }

Descending(df) ==
  \A i \in 1..(Len(df) - 1) : df[i].global_point >= df[i + 1].global_point

\* sort_values("global_point", ascending=False) with the default
\* kind="quicksort", which is not a stable sort: the rows come out in
\* non-increasing order of global_point, rows with equal global_point in any
\* order.
SortValues(df) ==
  { v \in { [i \in 1..Len(df) |-> df[p[i]]] : p \in Perms(Len(df)) } : Descending(v) }

\* ----------------------------------------------------------------- pagination
CeilDiv(a, b) == (a + b - 1) \div b

\* Mutant of TotalPages: floor division plus one instead of the ceiling.
TotalPagesFloorPlusOne(total_rows) ==
  IF total_rows > 0 THEN (total_rows \div PAGE_SIZE) + 1 ELSE 1

TotalPages(total_rows) ==
  IF total_rows > 0 THEN CeilDiv(total_rows, PAGE_SIZE) ELSE 1

\* Bound of a Python slice on a sequence of length n
ClampIdx(i, n) ==
  IF i < 0 THEN (IF i + n < 0 THEN 0 ELSE i + n)
  ELSE (IF i > n THEN n ELSE i)

\* df.iloc[start:stop]
Iloc(df, start, stop) ==
  LET n == Len(df)
      s == ClampIdx(start, n)
      e == ClampIdx(stop, n)
  IN  IF s >= e THEN <<>> ELSE SubSeq(df, s + 1, e)

\* Mutant of PageSlice: the end index taken as inclusive.
PageSliceShort(df, page) ==
  LET start_idx == (page - 1) * PAGE_SIZE
      end_idx == start_idx + PAGE_SIZE - 1
  IN  Iloc(df, start_idx, end_idx)

PageSlice(df, page) ==
  LET start_idx == (page - 1) * PAGE_SIZE
      end_idx == start_idx + PAGE_SIZE
  IN  Iloc(df, start_idx, end_idx)

\* --------------------------------------------------------------- detail fetch
\* Mutant of TargetNcodes: the first id of the page is left out.
TargetNcodesDropFirst(df) == [i \in 1..(Len(df) - 1) |-> df[i + 1].ncode]

\* df_display_index["ncode"].tolist()
TargetNcodes(df) == [i \in 1..Len(df) |-> df[i].ncode]

SeqRange(s) == { s[i] : i \in 1..Len(s) }

\* Mutant of StoryQuery: the WHERE clause is missing.
StoryQueryNoWhere(s, ids) ==
  [i \in 1..Len(s) |-> [ncode |-> s[i].ncode, story |-> s[i].story]]

\* SELECT ncode, story FROM store WHERE ncode IN (ids)
StoryQuery(s, ids) ==
  LET hit == SelectSeq(s, LAMBDA r : r.ncode \in SeqRange(ids))
  IN  [i \in 1..Len(hit) |-> [ncode |-> hit[i].ncode, story |-> hit[i].story]]

StoryOf(stories, n) ==
  IF \E i \in 1..Len(stories) : stories[i].ncode = n
  THEN Some((CHOOSE r \in SeqRange(stories) : r.ncode = n).story)
  ELSE Null

\* pd.merge(df_display_index, df_stories, on="ncode", how="left"); the ncode
\* of a store row is unique, so every left row yields one row.
Merge(left, stories) ==
  [i \in 1..Len(left) |->
     [ncode |-> left[i].ncode, title |-> left[i].title, genre |-> left[i].genre,
      global_point |-> left[i].global_point, keyword |-> left[i].keyword,
      story |-> StoryOf(stories, left[i].ncode)]]

\* -------------------------------------------------------------------- screen
Blank == [message |-> "none", table |-> <<>>]

\* ----------------------------------------------------------------------- Init
RunReset ==
  /\ queries = <<>>
  /\ error = "none"
  /\ df_index = <<>>
  /\ genre_filter = GenreAll
  /\ keyword = <<>>
  /\ min_point = 0
  /\ df_view = <<>>
  /\ total_pages = 0
  /\ current_page = 0
  /\ df_display_index = <<>>
  /\ df_stories = <<>>
  /\ df_final = <<>>
  /\ ui = Blank

Init ==
  /\ store \in Stores
  /\ now = 0
  /\ cache = Null
  /\ pc = "idle"
  /\ RunReset

RunVars == << queries, error, df_index, genre_filter, keyword, min_point, df_view,
              total_pages, current_page, df_display_index, df_stories, df_final, ui >>

\* load_index_data() finds no entry it may serve.
CacheMiss == IF IsNull(cache) THEN TRUE ELSE ~Fresh(Val(cache), now)

\* ----------------------------------------------------------------- environment
\* Time passes between two runs of the script.
Tick ==
  /\ pc = "idle"
  /\ now < MaxTicks * TickSeconds
  /\ now' = now + TickSeconds
  /\ UNCHANGED << store, cache, pc, RunVars >>

\* A row is added to the parquet files between two runs.
StoreAppend ==
  /\ pc = "idle"
  /\ Len(store) < MaxRows
  /\ \E k \in RowKinds : store' = Append(store, MkRow(k, Len(store) + 1))
  /\ UNCHANGED << now, cache, pc, RunVars >>

\* A user interaction starts a run of the script.
Rerun ==
  /\ pc = "idle"
  /\ pc' = "load"
  /\ UNCHANGED << store, now, cache, RunVars >>

\* ------------------------------------------------------------ load_index_data
\* The call is served from the cache: the function body does not run.
LoadIndexHit ==
  /\ pc = "load"
  /\ ~CacheMiss
  /\ df_index' = Val(cache).value
  /\ pc' = "filter"
  /\ UNCHANGED << store, now, cache, queries, error, genre_filter, keyword, min_point,
                  df_view, total_pages, current_page, df_display_index, df_stories,
                  df_final, ui >>

\* No entry, or the entry has expired: the body runs, queries the store and
\* its result replaces the entry.
LoadIndexMiss ==
  /\ pc = "load"
  /\ CacheMiss
  /\ queries' = Append(queries, [kind |-> "index", ids |-> <<>>])
  /\ df_index' = IndexQuery(store)
  /\ cache' = Some([at |-> now, value |-> IndexQuery(store)])
  /\ pc' = "filter"
  /\ UNCHANGED << store, now, error, genre_filter, keyword, min_point, df_view,
                  total_pages, current_page, df_display_index, df_stories, df_final, ui >>

\* Mutant of LoadIndexFail: st.stop() is missing, the script goes on.
LoadIndexFailNoStop ==
  /\ pc = "load"
  /\ CacheMiss
  /\ queries' = Append(queries, [kind |-> "index", ids |-> <<>>])
  /\ cache' = Null
  /\ error' = "index_load"
  /\ ui' = [message |-> "error", table |-> <<>>]
  /\ pc' = "filter"
  /\ UNCHANGED << store, now, df_index, genre_filter, keyword, min_point, df_view,
                  total_pages, current_page, df_display_index, df_stories, df_final >>

\* The body runs and the store query raises: st.error, then st.stop.  An
\* expired entry is dropped, nothing is stored.
LoadIndexFail ==
  /\ pc = "load"
  /\ CacheMiss
  /\ queries' = Append(queries, [kind |-> "index", ids |-> <<>>])
  /\ cache' = Null
  /\ error' = "index_load"
  /\ ui' = [message |-> "error", table |-> <<>>]
  /\ pc' = "stopped"
  /\ UNCHANGED << store, now, df_index, genre_filter, keyword, min_point, df_view,
                  total_pages, current_page, df_display_index, df_stories, df_final >>

\* ------------------------------------------------- widgets, filtering, sorting
FilterSort ==
  /\ pc = "filter"
  /\ \E g \in Genres(df_index), kw \in Keywords, mp \in MinPoints :
       /\ genre_filter' = g
       /\ keyword' = kw
       /\ min_point' = mp
       /\ df_view' \in SortValues(FilterView(df_index, g, kw, mp))
  /\ total_pages' = TotalPages(Len(df_view'))
  /\ pc' = "paginate"
  /\ UNCHANGED << store, now, cache, queries, error, df_index, current_page,
                  df_display_index, df_stories, df_final, ui >>

\* ----------------------------------------------------------------- pagination
PaginateStep(page) ==
  /\ pc = "paginate"
  /\ current_page' = page
  /\ df_display_index' = PageSlice(df_view, page)
  /\ pc' = "fetch"
  /\ UNCHANGED << store, now, cache, queries, error, df_index, genre_filter, keyword,
                  min_point, df_view, total_pages, df_stories, df_final, ui >>

\* st.number_input("ページ", min_value=1, max_value=total_pages, value=1)
Paginate == \E page \in 1..total_pages : PaginateStep(page)

\* --------------------------------------------------------------- detail fetch
FetchDetails ==
  /\ pc = "fetch"
  /\ df_display_index # <<>>
  /\ LET target_ncodes == TargetNcodes(df_display_index)
     IN  /\ queries' = Append(queries, [kind |-> "story", ids |-> target_ncodes])
         /\ df_stories' = StoryQuery(store, target_ncodes)
         /\ df_final' = Merge(df_display_index, StoryQuery(store, target_ncodes))
  /\ pc' = "display"
  /\ UNCHANGED << store, now, cache, error, df_index, genre_filter, keyword, min_point,
                  df_view, total_pages, current_page, df_display_index, ui >>

\* con.execute(story_query, ...) raises; nothing catches it, the run ends with
\* the exception on the screen.
FetchFail ==
  /\ pc = "fetch"
  /\ df_display_index # <<>>
  /\ queries' = Append(queries, [kind |-> "story", ids |-> TargetNcodes(df_display_index)])
  /\ error' = "detail_fetch"
  /\ ui' = [message |-> "exception", table |-> <<>>]
  /\ pc' = "aborted"
  /\ UNCHANGED << store, now, cache, df_index, genre_filter, keyword, min_point,
                  df_view, total_pages, current_page, df_display_index, df_stories,
                  df_final >>

\* else: df_final = pd.DataFrame()
FetchSkip ==
  /\ pc = "fetch"
  /\ df_display_index = <<>>
  /\ df_final' = <<>>
  /\ pc' = "display"
  /\ UNCHANGED << store, now, cache, queries, error, df_index, genre_filter, keyword,
                  min_point, df_view, total_pages, current_page, df_display_index,
                  df_stories, ui >>

\* -------------------------------------------------------------------- display
Display ==
  /\ pc = "display"
  /\ ui' = IF df_final # <<>>
           THEN [message |-> "none", table |-> df_final]
           ELSE [message |-> "warning", table |-> <<>>]
  /\ pc' = "done"
  /\ UNCHANGED << store, now, cache, queries, error, df_index, genre_filter, keyword,
                  min_point, df_view, total_pages, current_page, df_display_index,
                  df_stories, df_final >>

\* The run is over; its local variables are gone, only the cache survives.
Finish ==
  /\ pc \in {"done", "stopped", "aborted"}
  /\ pc' = "idle"
  /\ queries' = <<>>
  /\ error' = "none"
  /\ df_index' = <<>>
  /\ genre_filter' = GenreAll
  /\ keyword' = <<>>
  /\ min_point' = 0
  /\ df_view' = <<>>
  /\ total_pages' = 0
  /\ current_page' = 0
  /\ df_display_index' = <<>>
  /\ df_stories' = <<>>
  /\ df_final' = <<>>
  /\ ui' = Blank
  /\ UNCHANGED << store, now, cache >>

Next ==
  \/ Tick
  \/ StoreAppend
  \/ Rerun
  \/ LoadIndexHit
  \/ LoadIndexMiss
  \/ LoadIndexFail
  \/ FilterSort
  \/ Paginate
  \/ FetchDetails
  \/ FetchFail
  \/ FetchSkip
  \/ Display
  \/ Finish

Spec == Init /\ [][Next]_vars

\* The pagination step applied to any page number next to the valid range,
\* as a caller other than the clamping number_input would.
PaginateAny == \E page \in 0..(total_pages + 1) : PaginateStep(page)

NextAnyPage ==
  \/ Tick
  \/ StoreAppend
  \/ Rerun
  \/ LoadIndexHit
  \/ LoadIndexMiss
  \/ LoadIndexFail
  \/ FilterSort
  \/ PaginateAny
  \/ FetchDetails
  \/ FetchFail
  \/ FetchSkip
  \/ Display
  \/ Finish

SpecAnyPage == Init /\ [][NextAnyPage]_vars

\* ====================================================================== claims
PastFilter == pc \in {"paginate", "fetch", "display", "done", "aborted"}
PastPaginate == pc \in {"fetch", "display", "done", "aborted"}
PastFetch == pc \in {"display", "done", "aborted"}

StoryQueries == SelectSeq(queries, LAMBDA q : q.kind = "story")
IndexQueries == SelectSeq(queries, LAMBDA q : q.kind = "index")

\* C1: in a run whose page slice is not empty, exactly one story query is
\* issued, its id list is the ids of the page slice in order (at most
\* PAGE_SIZE of them); a run starts with no detail result and no story query
\* left from an earlier run.
C1_OneStoryQueryPerPage ==
  /\ (PastFetch /\ df_display_index # <<>>) =>
       /\ Len(StoryQueries) = 1
       /\ StoryQueries[1].ids =
            [i \in 1..Len(df_display_index) |-> df_display_index[i].ncode]
       /\ Len(StoryQueries[1].ids) <= PAGE_SIZE
  /\ pc \in {"idle", "load", "filter", "paginate", "fetch"} =>
       /\ df_stories = <<>>
       /\ StoryQueries = <<>>

\* C1 witness: a run has shown the second page, after one story query.
C1_Witness ==
  /\ pc = "done"
  /\ current_page = 2
  /\ df_display_index # <<>>
  /\ ui.table # <<>>
  /\ Len(StoryQueries) = 1

\* C2: a call of load_index_data() made while the cache entry is younger than
\* the time to live returns the sequence the entry holds, issues no query and
\* leaves the entry alone; the sequence a call returns is the one the entry
\* holds; a call issues an index query only when there is no entry or the
\* entry has expired.
C2_CachedWithinTTL ==
  /\ [](pc = "filter" => (~IsNull(cache) /\ df_index = Val(cache).value))
  /\ [][ (pc = "load" /\ ~IsNull(cache)) =>
           IF now - Val(cache).at < TTL
           THEN /\ df_index' = Val(cache).value
                /\ queries' = queries
                /\ cache' = cache
           ELSE Len(queries') = Len(queries) + 1 ]_vars
  /\ [][ Len(queries') > Len(queries) /\ queries'[Len(queries')].kind = "index" =>
           (IF IsNull(cache) THEN TRUE ELSE now - Val(cache).at >= TTL) ]_vars

\* C2 witness: a later call was served from the cache without a query, although
\* the store has changed since the entry was made.
C2_Witness ==
  /\ pc = "filter"
  /\ queries = <<>>
  /\ ~IsNull(cache)
  /\ now > Val(cache).at
  /\ df_index # IndexQuery(store)

\* Plain substring search, the reading the claim gives to the keyword.
IsSubstring(pat, text) ==
  \E i \in 1..(Len(text) + 1) :
     /\ i + Len(pat) - 1 <= Len(text)
     /\ \A j \in 1..Len(pat) : pat[j] = text[i + j - 1]

FieldHas(field, kw) == IF IsNull(field) THEN FALSE ELSE IsSubstring(kw, Val(field))

Satisfies(r) ==
  /\ min_point > 0 => r.global_point >= min_point
  /\ genre_filter # GenreAll => r.genre = genre_filter
  /\ keyword # <<>> => (FieldHas(r.title, keyword) \/ FieldHas(r.keyword, keyword))

\* C3: the filtered view holds exactly the index records that satisfy all
\* active predicates: global_point >= min_point when min_point > 0, genre equal
\* to genre_filter unless it is the "all" entry, keyword a substring of title or
\* of the keyword field when keyword is not empty (a null field does not
\* contain it).
C3_FilterConjunction ==
  PastFilter => SeqRange(df_view) = { r \in SeqRange(df_index) : Satisfies(r) }

IndexPos(r) == CHOOSE k \in 1..Len(df_index) : df_index[k].ncode = r.ncode

\* C4: the sorted view is non-increasing in global_point and the sort is
\* stable: two records with equal global_point keep their order of the index.
C4_SortedStable ==
  PastFilter =>
    /\ Descending(df_view)
    /\ \A i, j \in 1..Len(df_view) :
         (i < j /\ df_view[i].global_point = df_view[j].global_point)
           => IndexPos(df_view[i]) < IndexPos(df_view[j])

RECURSIVE ConcatPages(_, _)
ConcatPages(df, n) ==
  IF n = 0 THEN <<>> ELSE ConcatPages(df, n - 1) \o PageSlice(df, n)

\* C5: the page slices of pages 1..total_pages, concatenated in order, are
\* the sorted view; a page slice of a page in 1..total_pages is empty only
\* when the view has no record, and so is the slice of the page shown.
C5_PagesPartitionView ==
  /\ PastFilter =>
       /\ ConcatPages(df_view, total_pages) = df_view
       /\ \A p \in 1..total_pages : PageSlice(df_view, p) = <<>> => Len(df_view) = 0
  /\ PastPaginate =>
       /\ df_display_index = <<>> => Len(df_view) = 0
       /\ \A i \in 1..Len(df_display_index) :
            df_display_index[i] = df_view[(current_page - 1) * PAGE_SIZE + i]

\* C5 witness: the last of several pages is shown and it is not full.
C5_Witness ==
  /\ PastPaginate
  /\ total_pages >= 2
  /\ current_page = total_pages
  /\ df_display_index # <<>>
  /\ Len(df_display_index) < PAGE_SIZE

\* C6: when the story query of a page fails the run does not abort: the rows
\* of the page are displayed with a blank story and a warning is shown.
C6_DetailFailureDegrades ==
  error = "detail_fetch" =>
    /\ pc # "aborted"
    /\ pc = "done" =>
         /\ ui.table = Merge(df_display_index, <<>>)
         /\ ui.message = "warning"

C8_FetchOnlyRequested ==
  /\ StoryQueries # <<>> => df_display_index # <<>>
  /\ (PastFetch /\ df_display_index = <<>>) => (StoryQueries = <<>> /\ df_stories = <<>>)
  /\ df_stories # <<>> =>
       /\ StoryQueries # <<>>
       /\ { df_stories[i].ncode : i \in 1..Len(df_stories) }
            \subseteq SeqRange(StoryQueries[1].ids)

\* C8 witness: details were fetched for a page while the store holds rows
\* that were not requested.
C8_Witness ==
  /\ pc = "done"
  /\ df_stories # <<>>
  /\ \E i \in 1..Len(store) : store[i].ncode \notin SeqRange(StoryQueries[1].ids)

\* C9: total_pages is the ceiling of total_rows / PAGE_SIZE when total_rows > 0
\* and 1 when total_rows = 0, so it is at least 1; with no row the slice of
\* page 1 is empty.
C9_TotalPages ==
  PastFilter =>
    LET total_rows == Len(df_view) IN
    /\ total_pages >= 1
    /\ total_rows > 0 =>
         /\ total_pages * PAGE_SIZE >= total_rows
         /\ (total_pages - 1) * PAGE_SIZE < total_rows
    /\ total_rows = 0 =>
         /\ total_pages = 1
         /\ PageSlice(df_view, 1) = <<>>
         /\ PastPaginate => (current_page = 1 /\ df_display_index = <<>>)

\* C9 witness: a view whose length is a multiple of PAGE_SIZE has been paged.
C9_Witness ==
  /\ PastFilter
  /\ Len(df_view) = PAGE_SIZE
  /\ total_pages = 1

\* C10: when building the index fails the run shows an error and stops: no
\* index, no filtered view, no page, no story query and no table in that run.
C10_IndexFailureStops ==
  error = "index_load" =>
    /\ pc = "stopped"
    /\ ui = [message |-> "error", table |-> <<>>]
    /\ df_index = <<>>
    /\ df_view = <<>>
    /\ total_pages = 0
    /\ df_display_index = <<>>
    /\ StoryQueries = <<>>
    /\ df_final = <<>>

\* C10 witness: the index query of a run has failed.
C10_Witness ==
  /\ pc = "stopped"
  /\ error = "index_load"
  /\ Len(IndexQueries) = 1

====
